---- MODULE Spec2Model ----
(***************************************************************************)
(* Model of Petrobras-PreCal.py: the multi-route vessel composition        *)
(* calculator.  A Streamlit script is re-run from top to bottom on every   *)
(* widget interaction, so every action below is one complete script run    *)
(* (callback, input section, calculation trigger, output section).         *)
(*                                                                         *)
(* Volumes and divisors are Python floats (IEEE-754 binary64).  A decimal  *)
(* with two places is written here as its number of hundredths (995 for    *)
(* 9.95) and converted to the double Python holds by DecimalLiteral; the   *)
(* division volume / divisor is the correctly rounded binary64 division.   *)
(***************************************************************************)
EXTENDS Integers, Sequences, FiniteSets, TLC

(***************************************************************************)
(* Bounds of the model.                                                    *)
(***************************************************************************)
\* number of volume edits in one browser session
MaxEdits == 1
\* volumes are k times the divisor (k <= MaxMultiple); direct calls add +-0.01
MaxMultiple == 3
\* years handed to get_fixed_vessels are 2025, 2030, ... (MaxYearIndex steps)
MaxYearIndex == 8

(***************************************************************************)
(* binary64 arithmetic.  A positive double is [hi, lo, ex] with the 53-bit *)
(* significand hi * 2^27 + lo (2^25 <= hi < 2^26) and the value            *)
(* significand * 2^ex; zero has hi = lo = 0.  The number_input widgets     *)
(* have min_value=0.0, so no negative double occurs.                       *)
(***************************************************************************)
LimbBase == 2 ^ 27

HiddenBit == 2 ^ 25

RECURSIVE Normalize(_, _)
Normalize(h, ex) ==
    IF h >= HiddenBit THEN [hi |-> h, lo |-> 0, ex |-> ex]
    ELSE Normalize(2 * h, ex - 1)

\* the double equal to the integer n, 0 <= n < 2^26
FloatOfInt(n) ==
    IF n = 0 THEN [hi |-> 0, lo |-> 0, ex |-> 0] ELSE Normalize(n, 0 - 27)

MantGE(ahi, alo, bhi, blo) == ahi > bhi \/ (ahi = bhi /\ alo >= blo)

\* restoring long division of the significands, one quotient bit per step
RECURSIVE DivSteps(_, _)
DivSteps(s, b) ==
    IF s.n = 0 THEN s
    ELSE LET bit == IF MantGE(s.rhi, s.rlo, b.hi, b.lo) THEN 1 ELSE 0
             borrow == IF bit = 1 /\ s.rlo < b.lo THEN 1 ELSE 0
             thi == IF bit = 1 THEN s.rhi - b.hi - borrow ELSE s.rhi
             tlo == IF bit = 1 THEN s.rlo - b.lo + borrow * LimbBase ELSE s.rlo
             q2 == 2 * s.qlo + bit
         IN DivSteps([rhi |-> 2 * thi + (2 * tlo) \div LimbBase,
                      rlo |-> (2 * tlo) % LimbBase,
                      qhi |-> 2 * s.qhi + q2 \div LimbBase,
                      qlo |-> q2 % LimbBase,
                      n |-> s.n - 1], b)

\* a / b in binary64, rounded to nearest, ties to even (b > 0)
FloatDiv(a, b) ==
    IF a.hi = 0 THEN a
    ELSE LET big == MantGE(a.hi, a.lo, b.hi, b.lo)
             d == DivSteps([rhi |-> a.hi, rlo |-> a.lo, qhi |-> 0, qlo |-> 0,
                            n |-> IF big THEN 53 ELSE 54], b)
             ex == a.ex - b.ex - (IF big THEN 52 ELSE 53)
             up == \/ d.rhi > b.hi
                   \/ (d.rhi = b.hi /\ d.rlo > b.lo)
                   \/ (d.rhi = b.hi /\ d.rlo = b.lo /\ d.qlo % 2 = 1)
             ulo == IF up THEN (d.qlo + 1) % LimbBase ELSE d.qlo
             uhi == IF up THEN d.qhi + (d.qlo + 1) \div LimbBase ELSE d.qhi
         IN IF uhi = 2 * HiddenBit
            THEN [hi |-> HiddenBit, lo |-> 0, ex |-> ex + 1]
            ELSE [hi |-> uhi, lo |-> ulo, ex |-> ex]

\* math.ceil of a double
math_ceil(x) ==
    IF x.hi = 0 THEN 0
    ELSE LET s == 0 - x.ex
         IN IF s > 53 THEN 1
            ELSE IF s >= 27
            THEN LET p == 2 ^ (s - 27)
                 IN (x.hi \div p) + (IF x.lo # 0 \/ x.hi % p # 0 THEN 1 ELSE 0)
            ELSE LET p == 2 ^ s
                 IN x.hi * (2 ^ (27 - s)) + (x.lo \div p)
                    + (IF x.lo % p # 0 THEN 1 ELSE 0)

\* the double nearest to c / 100: a two-place decimal as Python holds it
DecimalLiteral(c) == FloatDiv(FloatOfInt(c), FloatOfInt(100))

(***************************************************************************)
(* Configuration.                                                          *)
(***************************************************************************)
YEAR_OPTIONS == <<2030, 2040, 2050>>

ROUTE_KEYS_ORDERED ==
    <<"vlcc_china", "suez_seasia", "suez_sing", "afra_europe", "pana_houston", "mr_ny">>

\* divisors are in hundredths: 995 is the literal 9.95
ROUTE_INFO ==
    [vlcc_china |-> [display_name |-> "Brazil to China (Crude Oil)", divisor |-> 995],
     suez_seasia |-> [display_name |-> "Brazil to SE Asia (Oil Product)", divisor |-> 642],
     suez_sing |-> [display_name |-> "Brazil to Singapore (Crude Oil)", divisor |-> 642],
     afra_europe |-> [display_name |-> "Brazil to Europe (Crude Oil)", divisor |-> 642],
     pana_houston |-> [display_name |-> "Brazil to Houston (Crude Oil)", divisor |-> 513],
     mr_ny |-> [display_name |-> "Brazil to New York (Oil Product)", divisor |-> 369]]

\* ROUTE_INFO.keys(), in insertion order
RouteKeys == DOMAIN ROUTE_INFO

\* default volumes in hundredths of MM bbl/year
DEFAULT_EXPORT_VOLUMES ==
    [vlcc_china |-> 28940, suez_seasia |-> 9580, suez_sing |-> 12330,
     afra_europe |-> 20920, pana_houston |-> 4520, mr_ny |-> 9170]

None == [is_none |-> TRUE]

(***************************************************************************)
(* get_fixed_vessels(route_key, year) -> (new_builds, existing)            *)
(***************************************************************************)
get_fixed_vessels(route_key, year) ==
    IF route_key = "vlcc_china" THEN
        IF year = 2030 THEN <<18, 0>>
        ELSE IF year >= 2040 THEN <<0, 18>>
        ELSE <<0, 0>>
    ELSE IF route_key = "suez_sing" THEN
        IF year = 2030 THEN <<10, 10>>
        ELSE IF year = 2040 THEN <<0, 10>>
        ELSE IF year = 2050 THEN <<0, 17>>
        ELSE <<0, 0>>
    ELSE IF route_key = "suez_seasia" THEN
        IF year = 2030 THEN <<9, 0>>
        ELSE IF year = 2040 THEN <<0, 9>>
        ELSE IF year = 2050 THEN <<0, 12>>
        ELSE <<0, 0>>
    ELSE IF route_key = "afra_europe" THEN
        IF year = 2030 \/ year = 2040 THEN <<0, 5>> ELSE <<0, 0>>
    ELSE IF route_key = "pana_houston" THEN
        IF year = 2030 THEN <<0, 1>> ELSE <<0, 0>>
    ELSE IF route_key = "mr_ny" THEN
        IF year = 2030 THEN <<0, 4>> ELSE <<0, 0>>
    ELSE <<0, 0>>

(***************************************************************************)
(* The volumes of the model, in hundredths of MM bbl/year.                 *)
(***************************************************************************)
\* what a user types into the number_input of a route (min_value=0.0)
VolumeChoices(key) ==
    {k * ROUTE_INFO[key].divisor : k \in 0..MaxMultiple}

\* volumes handed to the calculation when it is called directly
DirectVolumes(key) ==
    {k * ROUTE_INFO[key].divisor + j : k \in 1..MaxMultiple, j \in {0 - 1, 0, 1}}

\* the float value of a volume widget holding the decimal c / 100
VolumeFloat(c) == DecimalLiteral(c)

(***************************************************************************)
(* The per-route calculation of the 'Calculate All Routes' handler.        *)
(***************************************************************************)
\* the test volume < 0, which lets 0 through: no double here is negative
IsNegativeVolume(v) == FALSE

\* the volume test of the validation loop: volume <= 0
IsInvalidVolume(v) == v.hi = 0

\* math.floor of a double
math_floor(x) ==
    IF x.hi = 0 THEN 0
    ELSE LET s == 0 - x.ex
         IN IF s > 53 THEN 0
            ELSE IF s >= 27 THEN x.hi \div (2 ^ (s - 27))
            ELSE x.hi * (2 ^ (27 - s)) + (x.lo \div (2 ^ s))

\* the quotient rounded down
TotalVesselsFloor(v, divisor) == math_floor(FloatDiv(v, divisor))

\* the operands of the division exchanged
TotalVesselsSwapped(v, divisor) == math_ceil(FloatDiv(divisor, v))

\* math.ceil(volume / divisor)
TotalVessels(v, divisor) == math_ceil(FloatDiv(v, divisor))

Max(a, b) == IF a >= b THEN a ELSE b

\* the charter count without the clamp at zero
CharterNeededUnclamped(total_vessels, new_builds_needed, existing_vessels) ==
    total_vessels - new_builds_needed - existing_vessels

\* max(0, total_vessels - new_builds_needed - existing_vessels)
CharterNeeded(total_vessels, new_builds_needed, existing_vessels) ==
    Max(0, total_vessels - new_builds_needed - existing_vessels)

\* body of the loop over ROUTE_INFO.items(); volume_c is the volume in hundredths
RouteResult(key, info, volume_c, current_year) ==
    LET fixed == get_fixed_vessels(key, current_year)
        total_vessels ==
            TotalVessels(VolumeFloat(volume_c), DecimalLiteral(info.divisor))
    IN [route_display_name |-> info.display_name,
        export_volume |-> volume_c,
        total_vessels |-> total_vessels,
        new_builds_needed |-> fixed[1],
        existing_vessels |-> fixed[2],
        charter_needed |-> CharterNeeded(total_vessels, fixed[1], fixed[2])]

\* the validation loop: stops at the first route whose volume is <= 0
RECURSIVE ValidateVolumes(_, _)
ValidateVolumes(i, vol) ==
    IF i > Len(ROUTE_KEYS_ORDERED)
    THEN [all_volumes_valid |-> TRUE, warned |-> {}]
    ELSE IF IsInvalidVolume(VolumeFloat(vol[ROUTE_KEYS_ORDERED[i]]))
    THEN [all_volumes_valid |-> FALSE, warned |-> {ROUTE_KEYS_ORDERED[i]}]
    ELSE ValidateVolumes(i + 1, vol)

\* an else branch that leaves the session entries as they were
KeepOnInvalid(session) == session

\* the else branch of the handler: what is stored when a volume is invalid
StoreOnInvalid(session) ==
    [calculated_results_all_routes |-> None, show_results |-> FALSE]

\* the handler of the button: new session entries and what the run emitted
CalculateAllRoutes(session, vol, current_year) ==
    LET check == ValidateVolumes(1, vol)
    IN IF check.all_volumes_valid
       THEN [calculated_results_all_routes |->
                 [key \in RouteKeys |->
                     RouteResult(key, ROUTE_INFO[key], vol[key], current_year)],
             show_results |-> TRUE,
             warned |-> {},
             calls |-> RouteKeys]
       ELSE [calculated_results_all_routes |->
                 StoreOnInvalid(session).calculated_results_all_routes,
             show_results |-> StoreOnInvalid(session).show_results,
             warned |-> check.warned,
             calls |-> {}]

\* a callback that clears nothing
keep_results_on_year_change(session) == session

\* the on_change callback of the year selectbox
clear_results_on_year_change(session) ==
    [calculated_results_all_routes |-> None, show_results |-> FALSE]

\* the output section: the routes whose chart is drawn in this run
OutputSection(show, results) ==
    IF show /\ results # None
    THEN {ROUTE_KEYS_ORDERED[i] : i \in {j \in 1..Len(ROUTE_KEYS_ORDERED) :
                                          ROUTE_KEYS_ORDERED[j] \in DOMAIN results}}
    ELSE {}

(***************************************************************************)
(* State.                                                                  *)
(***************************************************************************)
VARIABLES
    selected_year,                   \* st.session_state.selected_year
    volume,                          \* st.session_state["volume_<key>"], hundredths
    calculated_results_all_routes,   \* None or the results of the last calculation
    show_results,                    \* st.session_state.show_results
    button,                          \* st.button(...) returned True in this run
    warned,                          \* routes named by st.warning in this run
    calls,                           \* routes the calculation loop ran for in this run
    charts,                          \* routes whose chart the output section drew
    edits,                           \* volume edits so far
    fn_args,                         \* arguments of a direct call of the functions
    fn_ret                           \* outcome of that call

vars == <<selected_year, volume, calculated_results_all_routes, show_results,
          button, warned, calls, charts, edits, fn_args, fn_ret>>

fn_vars == <<fn_args, fn_ret>>

session_vars == <<selected_year, volume, calculated_results_all_routes,
                  show_results, button, warned, calls, charts, edits>>

Session == [calculated_results_all_routes |-> calculated_results_all_routes,
            show_results |-> show_results]

InitSession ==
    /\ selected_year = YEAR_OPTIONS[1]
    /\ volume = [key \in RouteKeys |-> DEFAULT_EXPORT_VOLUMES[key]]
    /\ calculated_results_all_routes = None
    /\ show_results = FALSE
    /\ button = FALSE
    /\ warned = {}
    /\ calls = {}
    /\ charts = {}
    /\ edits = 0

Init ==
    /\ InitSession
    /\ fn_args = [route |-> "", year |-> 0, v1 |-> 0, v2 |-> 0]
    /\ fn_ret = [kind |-> "idle"]

\* the user picks another year: the callback runs, then the script
SelectYear(i) ==
    /\ YEAR_OPTIONS[i] # selected_year
    /\ \E s \in {clear_results_on_year_change(Session)} :
          /\ calculated_results_all_routes' = s.calculated_results_all_routes
          /\ show_results' = s.show_results
          /\ charts' = OutputSection(s.show_results, s.calculated_results_all_routes)
    /\ selected_year' = YEAR_OPTIONS[i]
    /\ button' = FALSE
    /\ warned' = {}
    /\ calls' = {}
    /\ UNCHANGED <<volume, edits, fn_vars>>

\* the user changes one volume: the script runs without the button
EditVolume(key, v) ==
    /\ edits < MaxEdits
    /\ v # volume[key]
    /\ volume' = [volume EXCEPT ![key] = v]
    /\ edits' = edits + 1
    /\ button' = FALSE
    /\ warned' = {}
    /\ calls' = {}
    /\ charts' = OutputSection(show_results, calculated_results_all_routes)
    /\ UNCHANGED <<selected_year, calculated_results_all_routes, show_results, fn_vars>>

\* the user clicks 'Calculate All Routes'
ClickCalculate ==
    /\ \E h \in {CalculateAllRoutes(Session, volume, selected_year)} :
          /\ calculated_results_all_routes' = h.calculated_results_all_routes
          /\ show_results' = h.show_results
          /\ warned' = h.warned
          /\ calls' = h.calls
          /\ charts' = OutputSection(h.show_results, h.calculated_results_all_routes)
    /\ button' = TRUE
    /\ UNCHANGED <<selected_year, volume, edits, fn_vars>>

Next ==
    \/ \E i \in 1..Len(YEAR_OPTIONS) : SelectYear(i)
    \/ \E key \in RouteKeys : \E v \in VolumeChoices(key) : EditVolume(key, v)
    \/ ClickCalculate

Spec == Init /\ [][Next]_vars

(***************************************************************************)
(* Direct calls of get_fixed_vessels and of the per-route calculation,     *)
(* with arguments the page itself never passes.                            *)
(***************************************************************************)
YearInputs == {2025 + 5 * i : i \in 0..MaxYearIndex}

InitFn ==
    /\ InitSession
    /\ \/ \E key \in RouteKeys, y \in YearInputs :
            \E a \in DirectVolumes(key), b \in DirectVolumes(key) :
                fn_args = [route |-> key, year |-> y, v1 |-> a, v2 |-> b]
       \/ \E y \in YearInputs :
            fn_args = [route |-> "unregistered", year |-> y, v1 |-> 0, v2 |-> 0]
    /\ fn_ret = [kind |-> "pending"]

\* get_fixed_vessels(route, year)
CallGetFixedVessels ==
    /\ fn_ret.kind = "pending"
    /\ fn_ret' = [kind |-> "fixed", raised |-> "",
                  value |-> get_fixed_vessels(fn_args.route, fn_args.year)]
    /\ UNCHANGED <<fn_args, session_vars>>

\* the loop body for one route and year, once for each of the two volumes
CallRouteResult ==
    /\ fn_ret.kind = "pending"
    /\ fn_args.route \in RouteKeys
    /\ fn_ret' = [kind |-> "calc",
                  r1 |-> RouteResult(fn_args.route, ROUTE_INFO[fn_args.route],
                                     fn_args.v1, fn_args.year),
                  r2 |-> RouteResult(fn_args.route, ROUTE_INFO[fn_args.route],
                                     fn_args.v2, fn_args.year)]
    /\ UNCHANGED <<fn_args, session_vars>>

NextFn == CallGetFixedVessels \/ CallRouteResult

SpecFn == InitFn /\ [][NextFn]_vars

(***************************************************************************)
(* Properties.                                                             *)
(***************************************************************************)
HasResults == calculated_results_all_routes # None

InvalidRoutes == {key \in RouteKeys : volume[key] <= 0}

SupportedYears == {YEAR_OPTIONS[i] : i \in 1..Len(YEAR_OPTIONS)}

\* the smallest integer n with n * d >= v, for v = c / 100 and d = dc / 100
ExactCeil(c, dc) == (c + dc - 1) \div dc

\* C1: every stored Total Vessels Required equals ceil(v / d), the smallest
\* integer n with n * d >= v, for the route's volume v and divisor d.
C1_TotalIsExactCeiling ==
    HasResults =>
        \A key \in RouteKeys :
            calculated_results_all_routes[key].total_vessels
                = ExactCeil(calculated_results_all_routes[key].export_volume,
                            ROUTE_INFO[key].divisor)

\* C2: in every computed route result the charter count is an integer >= 0:
\* total = new_builds + existing + charter when new_builds + existing <= total,
\* and charter = 0 when new_builds + existing > total.
C2_CharterClamped ==
    HasResults =>
        \A key \in RouteKeys :
            LET r == calculated_results_all_routes[key]
                fixed == r.new_builds_needed + r.existing_vessels
            IN /\ r.charter_needed \in Nat
               /\ fixed <= r.total_vessels
                    => r.total_vessels = fixed + r.charter_needed
               /\ fixed > r.total_vessels => r.charter_needed = 0

C2_Witness ==
    /\ HasResults
    /\ \E key \in RouteKeys :
          LET r == calculated_results_all_routes[key]
          IN /\ r.new_builds_needed + r.existing_vessels > r.total_vessels
             /\ r.total_vessels > 0
             /\ r.charter_needed = 0
    /\ \E key \in RouteKeys :
          LET r == calculated_results_all_routes[key]
          IN /\ r.new_builds_needed + r.existing_vessels < r.total_vessels
             /\ r.charter_needed > 0

\* C3: a click with some volumes invalid and others valid still stores a
\* result for every route whose volume is valid and warns about every
\* invalid route.
C3_BatchIsolatesFailures ==
    (button /\ InvalidRoutes # {} /\ InvalidRoutes # RouteKeys) =>
        /\ \A key \in RouteKeys \ InvalidRoutes :
              key \in DOMAIN calculated_results_all_routes
        /\ warned = InvalidRoutes

\* C4: a volume <= 0 never yields a result: no stored result has a volume
\* <= 0, and a click with such a volume is answered by a warning about an
\* invalid route, stores nothing, draws nothing, and runs the calculation
\* loop (divisor, get_fixed_vessels, division) for no route.
C4_InvalidVolumeRejected ==
    /\ HasResults =>
          \A key \in RouteKeys :
              calculated_results_all_routes[key].export_volume > 0
    /\ (button /\ InvalidRoutes # {}) =>
          /\ ~HasResults
          /\ ~show_results
          /\ charts = {}
          /\ calls = {}
          /\ warned # {}
          /\ warned \subseteq InvalidRoutes

C4_Witness ==
    /\ button
    /\ \E key \in RouteKeys : volume[key] = 0 /\ key \in warned
    /\ \E key \in RouteKeys : volume[key] > 0

\* C5: get_fixed_vessels fails with UnknownRouteError for a route key that
\* is not registered.
C5_UnknownRouteFails ==
    (fn_ret.kind = "fixed" /\ fn_args.route \notin RouteKeys) =>
        fn_ret.raised = "UnknownRouteError"

\* C6: for a registered route and a year outside {2030, 2040, 2050},
\* get_fixed_vessels returns (0, 0).
C6_UnsupportedYearDefaults ==
    (fn_ret.kind = "fixed" /\ fn_args.route \in RouteKeys
        /\ fn_args.year \notin SupportedYears) =>
        fn_ret.value = <<0, 0>>

\* C7: the concrete scenarios: vlcc_china with 289.4 gives total 30 with
\* (18, 0, 12) in 2030 and (0, 18, 12) in 2040; suez_sing with 123.3 in 2050
\* gives total 20 with (0, 17, 3).
C7_ConcreteScenarios ==
    HasResults =>
        LET china == calculated_results_all_routes["vlcc_china"]
            sing == calculated_results_all_routes["suez_sing"]
        IN /\ (selected_year = 2030 /\ china.export_volume = 28940) =>
                 /\ china.total_vessels = 30
                 /\ china.new_builds_needed = 18
                 /\ china.existing_vessels = 0
                 /\ china.charter_needed = 12
           /\ (selected_year = 2040 /\ china.export_volume = 28940) =>
                 /\ china.total_vessels = 30
                 /\ china.new_builds_needed = 0
                 /\ china.existing_vessels = 18
                 /\ china.charter_needed = 12
           /\ (selected_year = 2050 /\ sing.export_volume = 12330) =>
                 /\ sing.total_vessels = 20
                 /\ sing.new_builds_needed = 0
                 /\ sing.existing_vessels = 17
                 /\ sing.charter_needed = 3

C7_Witness ==
    /\ HasResults
    /\ button
    /\ selected_year = 2050
    /\ calculated_results_all_routes["suez_sing"].export_volume = 12330
    /\ calculated_results_all_routes["suez_sing"].charter_needed = 3
    /\ calculated_results_all_routes["vlcc_china"].export_volume = 28940
    /\ calculated_results_all_routes["vlcc_china"].total_vessels = 30

\* C8: for one route and year and volumes 0 < v1 <= v2, the total for v1 is
\* at most the total for v2, and so is the charter count.
C8_MonotoneInVolume ==
    (fn_ret.kind = "calc" /\ 0 < fn_args.v1 /\ fn_args.v1 <= fn_args.v2) =>
        /\ fn_ret.r1.total_vessels <= fn_ret.r2.total_vessels
        /\ fn_ret.r1.charter_needed <= fn_ret.r2.charter_needed

C8_Witness ==
    /\ fn_ret.kind = "calc"
    /\ 0 < fn_args.v1
    /\ fn_args.v1 < fn_args.v2
    /\ fn_ret.r1.total_vessels < fn_ret.r2.total_vessels
    /\ fn_ret.r1.charter_needed < fn_ret.r2.charter_needed

\* what is shown was computed with the selected year
ShownResultsMatchYear ==
    (show_results \/ charts # {}) =>
        /\ show_results
        /\ HasResults
        /\ \A key \in RouteKeys :
              LET r == calculated_results_all_routes[key]
                  fixed == get_fixed_vessels(key, selected_year)
              IN /\ r.new_builds_needed = fixed[1]
                 /\ r.existing_vessels = fixed[2]
                 /\ r.charter_needed
                      = Max(0, r.total_vessels - fixed[1] - fixed[2])

\* C9: whenever results are shown they were computed with the selected
\* year; a change of year clears the results and hides them, and they
\* become visible again only by a calculation with all volumes valid.
C9_ResultsFollowYear ==
    /\ []ShownResultsMatchYear
    /\ [][/\ selected_year' # selected_year =>
                (calculated_results_all_routes' = None /\ ~show_results')
          /\ (~show_results /\ show_results') =>
                (button' /\ \A key \in RouteKeys : volume'[key] > 0)]_vars

C9_Witness ==
    /\ show_results
    /\ charts = RouteKeys
    /\ selected_year = 2040
    /\ calculated_results_all_routes["suez_sing"].existing_vessels = 10
    /\ calculated_results_all_routes["suez_sing"].new_builds_needed = 0

\* the stored results are complete, or absent
AllOrNothing ==
    /\ show_results <=> HasResults
    /\ HasResults =>
          /\ DOMAIN calculated_results_all_routes = RouteKeys
          /\ \A key \in RouteKeys :
                calculated_results_all_routes[key].export_volume > 0
    /\ button =>
          IF InvalidRoutes = {}
          THEN /\ HasResults
               /\ \A key \in RouteKeys :
                     calculated_results_all_routes[key].export_volume = volume[key]
          ELSE ~HasResults

\* C10: show_results holds exactly when results are stored; stored results
\* hold one result for each of the six routes, all from the same click and
\* from volumes > 0; a click with a volume <= 0 leaves no results stored.
C10_ResultsAllOrNothing ==
    /\ []AllOrNothing
    /\ [][(calculated_results_all_routes' # calculated_results_all_routes
             /\ calculated_results_all_routes' # None) => button']_vars

C10_Witness ==
    /\ button
    /\ ~HasResults
    /\ ~show_results
    /\ InvalidRoutes # {}
    /\ InvalidRoutes # RouteKeys
    /\ edits = 1

====
